---- MODULE Spec2Model ----
(***************************************************************************)
(* A model of imgx (src/ImgUtil.py, src/imgx.py): the destination-driven   *)
(* pixel mapping of ImgUtil._transform_pixels and the colour, rotation and *)
(* scaling operations built on it.                                         *)
(*                                                                         *)
(* An image is a record [width, height, pixels]; pixels is a function from *)
(* <<x, y>> to an <<r, g, b>> triple, as PIL's pixel access pixels[x, y].  *)
(* Real numbers are exact rationals n/d kept as integer pairs: Python's    *)
(* round() is round-half-to-even, math.floor is the floor.  Scale factors  *)
(* are binary fractions n / 2^k, for which the float arithmetic of scale   *)
(* is exact, and their reciprocals, taken as exact rationals.  Where the   *)
(* float evaluation of rgb_to_hsl lands on an exact tie k + 1/2 the result *)
(* depends on float rounding noise: the model lets such a rounding go      *)
(* either way (a tie-break oracle per pixel value).  Cosines and sines are *)
(* given to four decimals, which decides every rounding of the pivots and  *)
(* sizes used here as the floats do.                                       *)
(***************************************************************************)
EXTENDS Integers, Sequences, FiniteSets, TLC

VARIABLES
    util,    \* the ImgUtil object the operations are invoked on
    loaded,  \* what the codec decoded when util was constructed
    orig,    \* the first image of a save/re-open chain
    trail,   \* the operations that led from orig to util, oldest first
    op,      \* the last operation invoked on util
    dst,     \* what that operation returned (or that it raised)
    reads    \* the source coordinates that operation read in util.pixels

vars == <<util, loaded, orig, trail, op, dst, reads>>

----------------------------------------------------------------------------
(* Bounds of the model. *)

MaxDim == 2        \* source images are up to MaxDim x MaxDim
MaxScaleDim == 6   \* source images of the scale round trip are up to this size
MaxNum == 4        \* scale factors n/2 with -1 <= n <= MaxNum
MaxScaleNum == 3   \* the round trip's factors n/1, n/2, n/4 with 1 <= n <= MaxScaleNum
MaxChain == 3      \* save/re-open steps in a chain
MaxPivot == 1      \* pivots lie at -1, 0 or MaxPivot on each axis
LevelStep == 51    \* sampled channel values are the multiples of LevelStep
HslStep == 9       \* the channel values of the HSL round trip are the multiples of HslStep

----------------------------------------------------------------------------
(* Arithmetic. *)

Abs(a) == IF a < 0 THEN -a ELSE a

Max2(a, b) == IF a >= b THEN a ELSE b

Min2(a, b) == IF a <= b THEN a ELSE b

Max3(a, b, c) == Max2(a, Max2(b, c))

Min3(a, b, c) == Min2(a, Min2(b, c))

RECURSIVE Pow2(_)
Pow2(k) == IF k <= 0 THEN 1 ELSE 2 * Pow2(k - 1)

\* math.floor(n / d), d > 0
Floor(n, d) == n \div d

\* n/d is exactly half way between two integers (d > 0)
IsTie(n, d) == 2 * (n % d) = d

\* n/d rounded to the nearest integer, a tie going up iff `up` (d > 0)
RoundTie(n, d, up) ==
    LET q == n \div d
        r == n % d
    IN  IF 2 * r < d THEN q
        ELSE IF 2 * r > d THEN q + 1
        ELSE IF up THEN q + 1 ELSE q

\* Python's round(n / d): to the nearest integer, ties to the even one
RoundHalfEven(n, d) == RoundTie(n, d, (n \div d) % 2 = 1)

\* Python's a & b on non-negative integers
RECURSIVE BitAnd(_, _)
BitAnd(a, b) ==
    IF a = 0 \/ b = 0 THEN 0
    ELSE (a % 2) * (b % 2) + 2 * BitAnd(a \div 2, b \div 2)

----------------------------------------------------------------------------
(* Images. *)

Coords(w, h) == (0 .. w - 1) \X (0 .. h - 1)

Black == <<0, 0, 0>>
White == <<255, 255, 255>>
Green == <<0, 255, 0>>

Levels == {v \in 0 .. 255 : v % LevelStep = 0} \cup {255}

HslLevels == {v \in 0 .. 255 : v % HslStep = 0} \cup {255}

Palette == {Black, <<200, 100, 50>>}

\* an image whose pixels are pairwise different
GradientPixel(x, y) == <<(200 + 60 * x) % 256, (100 + 70 * y) % 256, (50 + 30 * x + 90 * y) % 256>>

GradientImage(w, h) ==
    [width |-> w, height |-> h,
     pixels |-> [c \in Coords(w, h) |-> GradientPixel(c[1], c[2])]]

\* the images of w x h of one colour of the palette
UniformImages(w, h) ==
    { [width |-> w, height |-> h, pixels |-> [c \in Coords(w, h) |-> p]] : p \in Palette }

GradientImages(maxw, maxh) ==
    { GradientImage(w, h) : w \in 1 .. maxw, h \in 1 .. maxh }

PixelImages ==
    { [width |-> 1, height |-> 1, pixels |-> [c \in Coords(1, 1) |-> p]]
      : p \in Levels \X Levels \X Levels }

\* the destination coordinates of an operation that keeps the size
SameSize(u) == Coords(u.width, u.height)

HslImages ==
    { [width |-> 1, height |-> 1, pixels |-> [c \in Coords(1, 1) |-> p]]
      : p \in HslLevels \X HslLevels \X HslLevels }

InBounds(u, x, y) == 0 <= x /\ x < u.width /\ 0 <= y /\ y < u.height

\* A cell is what one call of a map_pixel_fn did: the colour it returned
\* (ok) or that it raised, and the source coordinates it read.
Cell(p, rd) == [ok |-> TRUE, px |-> p, rd |-> rd]
Raised(rd) == [ok |-> FALSE, px |-> Black, rd |-> rd]

\* util.pixels[x, y]: PIL counts a negative index from the far edge and
\* raises IndexError outside the image.
Fetch(u, x, y) ==
    LET xx == IF x < 0 THEN x + u.width ELSE x
        yy == IF y < 0 THEN y + u.height ELSE y
    IN  IF InBounds(u, xx, yy)
        THEN Cell(u.pixels[<<xx, yy>>], {<<x, y>>})
        ELSE Raised({<<x, y>>})

NoImage == [status |-> "error", width |-> 0, height |-> 0, pixels |-> [c \in {} |-> Black]]

\* the position of destination pixel c in the loops of _transform_pixels
\* (rows outside, columns inside)
LoopIndex(c, dst_w) == c[2] * dst_w + c[1]

\* a variant that writes map_pixel_fn's colours into the source buffer as well
TransformPixelsInPlace(self, cells, dst_w, dst_h) ==
    IF dst_w < 0 \/ dst_h < 0
    THEN [self |-> self, img |-> NoImage, reads |-> {}]
    ELSE LET cs == Coords(dst_w, dst_h)
             written == [c \in cs |-> cells[c].px]
         IN  [self  |-> [width |-> dst_w, height |-> dst_h, pixels |-> written],
              img   |-> [status |-> "ok", width |-> dst_w, height |-> dst_h,
                         pixels |-> written],
              reads |-> UNION { cells[c].rd : c \in cs }]

\* _transform_pixels: a new image of dst_w x dst_h whose pixel (dx, dy) is
\* cells[dx, dy], the outcome of map_pixel_fn(dx, dy, self).  The result
\* names the source object after the call (self), the returned image (img)
\* and the coordinates read.  Image.new raises ValueError for a negative
\* size; the first exception of map_pixel_fn ends the call.
TransformPixels(self, cells, dst_w, dst_h) ==
    IF dst_w < 0 \/ dst_h < 0
    THEN [self |-> self, img |-> NoImage, reads |-> {}]
    ELSE LET cs == Coords(dst_w, dst_h)
             bad == { c \in cs : ~cells[c].ok }
             done == { c \in cs : \A b \in bad : LoopIndex(c, dst_w) <= LoopIndex(b, dst_w) }
         IN  [self  |-> self,
              img   |-> IF bad = {}
                        THEN [status |-> "ok", width |-> dst_w, height |-> dst_h,
                              pixels |-> [c \in cs |-> cells[c].px]]
                        ELSE NoImage,
              reads |-> UNION { cells[c].rd : c \in done }]

----------------------------------------------------------------------------
(* Colour operations: the per-pixel functions. *)

\* (r + g + b) // 3
Average(p) == (p[1] + p[2] + p[3]) \div 3

GrayPixel(p) == <<Average(p), Average(p), Average(p)>>

\* a variant comparing with > instead of >=
BinaryPixelStrict(p, threshold) == IF Average(p) > threshold THEN White ELSE Black

\* to_binary: white if avg >= threshold, else black
BinaryPixel(p, threshold) == IF Average(p) >= threshold THEN White ELSE Black

\* a variant subtracting from 0x100
NegativePixelOffByOne(p) == <<256 - p[1], 256 - p[2], 256 - p[3]>>

\* to_negative: 0xFF - r, 0xFF - g, 0xFF - b
NegativePixel(p) == <<255 - p[1], 255 - p[2], 255 - p[3]>>

\* a << k raises ValueError for a negative shift count
ShiftRaises(bits_per_channel) == bits_per_channel < 0 \/ 8 - bits_per_channel < 0

\* a variant without the shift to the top bits
MaskLowBits(bits_per_channel) == Pow2(bits_per_channel) - 1

\* ((1 << bits_per_channel) - 1) << (8 - bits_per_channel)
Mask(bits_per_channel) == (Pow2(bits_per_channel) - 1) * Pow2(8 - bits_per_channel)

ReducePixel(p, mask) == <<BitAnd(p[1], mask), BitAnd(p[2], mask), BitAnd(p[3], mask)>>

\* rgb_to_hsl.  With mx, mn the largest and smallest channel, delta = mx - mn
\* and sum = mx + mn (all over 255 in the code):
\*   l * 255        = sum / 2
\*   s * 255        = 255 * delta / (255 - |sum - 255|)
\*   h / 360 * 255  = 85 * q / 2, q = (g-b)/delta mod 6, (b-r)/delta + 2 or
\*                    (r-g)/delta + 4
\* each given as <<numerator, denominator>>.
LightRatio(p) == <<Max3(p[1], p[2], p[3]) + Min3(p[1], p[2], p[3]), 2>>

SatRatio(p) ==
    LET mx == Max3(p[1], p[2], p[3])
        mn == Min3(p[1], p[2], p[3])
    IN  IF mx = mn THEN <<0, 1>>
        ELSE <<255 * (mx - mn), 255 - Abs(mx + mn - 255)>>

HueRatio(p) ==
    LET mx == Max3(p[1], p[2], p[3])
        mn == Min3(p[1], p[2], p[3])
        delta == mx - mn
    IN  IF delta = 0 THEN <<0, 1>>
        ELSE IF mx = p[1] THEN <<85 * ((p[2] - p[3]) % (6 * delta)), 2 * delta>>
        ELSE IF mx = p[2] THEN <<85 * ((p[3] - p[1]) + 2 * delta), 2 * delta>>
        ELSE <<85 * ((p[1] - p[2]) + 4 * delta), 2 * delta>>

\* the roundings of rgb_to_hsl on pixel p that are exact ties
TiedKeys(p) ==
    { k \in {"h", "s", "l"} :
        LET q == CASE k = "h" -> HueRatio(p) [] k = "s" -> SatRatio(p) [] OTHER -> LightRatio(p)
        IN  IsTie(q[1], q[2]) }

\* the tie-break oracles for image u: which way the float evaluation
\* rounds each tied value of each pixel value of u
Oracles(u) ==
    [ { <<u.pixels[c], k>> : c \in DOMAIN u.pixels, k \in {"h", "s", "l"} }
        \cap { <<p, k>> \in { u.pixels[c] : c \in DOMAIN u.pixels } \X {"h", "s", "l"} :
                 k \in TiedKeys(p) }
      -> BOOLEAN ]

\* int(round(h / 360 * 255)), int(round(s * 255)), int(round(l * 255))
HslPixel(p, tb) ==
    LET h == HueRatio(p)
        s == SatRatio(p)
        l == LightRatio(p)
        up(k) == IF <<p, k>> \in DOMAIN tb THEN tb[<<p, k>>] ELSE FALSE
    IN  <<RoundTie(h[1], h[2], up("h")), RoundTie(s[1], s[2], up("s")),
          RoundTie(l[1], l[2], up("l"))>>

\* a variant with the last two sectors of the hue exchanged
RgbPixelSwapped(p) ==
    LET A == (255 - Abs(2 * p[3] - 255)) * p[2]
        B == 85 - Abs(((2 * p[1]) % 170) - 85)
        C == RoundHalfEven(510 * p[3] + A, 510)
        X == RoundHalfEven(43350 * p[3] + 2 * A * B - 85 * A, 43350)
        Z == RoundHalfEven(510 * p[3] - A, 510)
    IN  IF p[1] <= 42 THEN <<C, X, Z>>
        ELSE IF p[1] <= 84 THEN <<X, C, Z>>
        ELSE IF p[1] <= 127 THEN <<Z, C, X>>
        ELSE IF p[1] <= 169 THEN <<Z, X, C>>
        ELSE IF p[1] <= 212 THEN <<C, Z, X>>
        ELSE <<X, Z, C>>

\* hsl_to_rgb.  With A = (255 - |2 l8 - 255|) * s8 (c = A / 255^2) and
\* B = 85 - |(2 h8 mod 170) - 85| (x_ = c * B / 85):
\*   (c  + m) * 255 = (510 l8 + A) / 510
\*   (x_ + m) * 255 = (43350 l8 + 2 A B - 85 A) / 43350
\*   (0  + m) * 255 = (510 l8 - A) / 510
\* and the sector of h = h8 / 255 * 360 is given by h8 < 42.5, 85, 127.5,
\* 170, 212.5.
RgbPixel(p) ==
    LET A == (255 - Abs(2 * p[3] - 255)) * p[2]
        B == 85 - Abs(((2 * p[1]) % 170) - 85)
        C == RoundHalfEven(510 * p[3] + A, 510)
        X == RoundHalfEven(43350 * p[3] + 2 * A * B - 85 * A, 43350)
        Z == RoundHalfEven(510 * p[3] - A, 510)
    IN  IF p[1] <= 42 THEN <<C, X, Z>>
        ELSE IF p[1] <= 84 THEN <<X, C, Z>>
        ELSE IF p[1] <= 127 THEN <<Z, C, X>>
        ELSE IF p[1] <= 169 THEN <<Z, X, C>>
        ELSE IF p[1] <= 212 THEN <<X, Z, C>>
        ELSE <<C, Z, X>>

----------------------------------------------------------------------------
(* Colour operations: the map_pixel_fn of each, at destination (x, y). *)

OnPixel(f, p) == IF f.ok THEN Cell(p, f.rd) ELSE f

to_gray(x, y, u) ==
    LET f == Fetch(u, x, y) IN OnPixel(f, GrayPixel(f.px))

to_binary(x, y, u, threshold) ==
    LET f == Fetch(u, x, y) IN OnPixel(f, BinaryPixel(f.px, threshold))

to_negative(x, y, u) ==
    LET f == Fetch(u, x, y) IN OnPixel(f, NegativePixel(f.px))

to_reduce_bit_depth(x, y, u, bits_per_channel) ==
    LET f == Fetch(u, x, y)
    IN  IF ~f.ok THEN f
        ELSE IF ShiftRaises(bits_per_channel) THEN Raised(f.rd)
        ELSE Cell(ReducePixel(f.px, Mask(bits_per_channel)), f.rd)

to_hsl(x, y, u, tb) ==
    LET f == Fetch(u, x, y) IN OnPixel(f, HslPixel(f.px, tb))

to_rgb(x, y, u) ==
    LET f == Fetch(u, x, y) IN OnPixel(f, RgbPixel(f.px))

----------------------------------------------------------------------------
(* Flips and rotations. *)

to_flip_vertically(x, y, u) == Fetch(u, x, u.height - 1 - y)

to_flip_horizontally(x, y, u) == Fetch(u, u.width - 1 - x, y)

\* rotate: the destination size
RotateSize(u, step) ==
    IF step \in {0, 2} THEN <<u.height, u.width>> ELSE <<u.width, u.height>>

\* a variant whose 270-degree branch takes the 90-degree x
RotateSrcMirrored(step, x, y, w, h) ==
    IF step = 0 THEN <<w - 1 - y, x>>
    ELSE IF step = 1 THEN <<w - 1 - x, h - 1 - y>>
    ELSE <<w - 1 - y, h - 1 - x>>

\* to_rotate: step 0 is 90 degrees, 1 is 180, anything else 270
RotateSrc(step, x, y, w, h) ==
    IF step = 0 THEN <<w - 1 - y, x>>
    ELSE IF step = 1 THEN <<w - 1 - x, h - 1 - y>>
    ELSE <<y, h - 1 - x>>

to_rotate(x, y, u, step) ==
    LET src == RotateSrc(step, x, y, u.width, u.height)
    IN  Fetch(u, src[1], src[2])

\* math.cos and math.sin of math.radians(angle), times 10000
Angles == {0, 20, 45, 90, 180, 270}

CosT(angle) ==
    CASE angle = 0 -> 10000 [] angle = 20 -> 9397 [] angle = 45 -> 7071
      [] angle = 90 -> 0 [] angle = 180 -> -10000 [] angle = 270 -> 0

SinT(angle) ==
    CASE angle = 0 -> 0 [] angle = 20 -> 3420 [] angle = 45 -> 7071
      [] angle = 90 -> 10000 [] angle = 180 -> 0 [] angle = 270 -> -10000

\* rotate_on_point: the rounded, inverse-rotated source coordinate of (dx, dy)
PivotSrc(dx, dy, angle, px, py) ==
    LET x_rot == dx - px
        y_rot == dy - py
    IN  <<RoundHalfEven(x_rot * CosT(angle) + y_rot * SinT(angle) + 10000 * px, 10000),
          RoundHalfEven(y_rot * CosT(angle) - x_rot * SinT(angle) + 10000 * py, 10000)>>

to_rotate_on_point(dx, dy, u, angle, px, py) ==
    LET src == PivotSrc(dx, dy, angle, px, py)
    IN  IF InBounds(u, src[1], src[2])
        THEN Fetch(u, src[1], src[2])
        ELSE Cell(Green, {})

----------------------------------------------------------------------------
(* Scaling.  A factor is the rational n/d, [n |-> n, d |-> d] with d > 0;  *)
(* NoFactor stands for y_factor=None.                                      *)

NoFactor == [n |-> 0, d |-> 0]

Factor(n, d) == [n |-> n, d |-> d]

\* y_factor, or x_factor when it is None
YFactor(x_factor, y_factor) == IF y_factor = NoFactor THEN x_factor ELSE y_factor

\* round(size * factor)
ScaledSize(size, factor) == RoundHalfEven(size * factor.n, factor.d)

\* a variant taking the height from the width
ScaleSizeFromWidth(u, x_factor, y_factor) ==
    <<ScaledSize(u.width, x_factor), ScaledSize(u.width, y_factor)>>

\* the destination size of scale and scale_bilinear
ScaleSize(u, x_factor, y_factor) ==
    <<ScaledSize(u.width, x_factor), ScaledSize(u.height, y_factor)>>

\* round(v / factor), for a factor that is not zero
Unscaled(v, factor) ==
    IF factor.n > 0 THEN RoundHalfEven(v * factor.d, factor.n)
    ELSE RoundHalfEven(-(v * factor.d), -factor.n)

\* get_unscaled_coordinates
get_unscaled_coordinates(x_scaled, y_scaled, x_factor, y_factor) ==
    <<Unscaled(x_scaled, x_factor), Unscaled(y_scaled, y_factor)>>

to_scale(dx, dy, u, x_factor, y_factor) ==
    IF x_factor.n = 0 \/ y_factor.n = 0 THEN Raised({})   \* ZeroDivisionError
    ELSE LET src == get_unscaled_coordinates(dx, dy, x_factor, y_factor)
         IN  IF InBounds(u, src[1], src[2])
             THEN Fetch(u, src[1], src[2])
             ELSE Cell(Black, {})

\* a variant that does not clamp
ClampNone(v, max_v) == v

\* clamp(v, max_v) of to_bilinear
Clamp(v, max_v) == Max2(0, Min2(v, max_v))

\* the four neighbours' weights are (n-ax)(m-by), ax(m-by), (n-ax)by and
\* ax*by over n*m, where dx/x_factor = x0 + ax/n and dy/y_factor = y0 + by/m
Blend(p00, p10, p01, p11, ax, n, by, m, ch) ==
    RoundHalfEven(p00[ch] * (n - ax) * (m - by) + p10[ch] * ax * (m - by)
                    + p01[ch] * (n - ax) * by + p11[ch] * ax * by,
                  n * m)

to_bilinear(dx, dy, u, x_factor, y_factor) ==
    IF x_factor.n = 0 \/ y_factor.n = 0 THEN Raised({})   \* ZeroDivisionError
    ELSE LET sx == IF x_factor.n > 0 THEN 1 ELSE -1
             sy == IF y_factor.n > 0 THEN 1 ELSE -1
             a == sx * dx * x_factor.d
             n == sx * x_factor.n
             b == sy * dy * y_factor.d
             m == sy * y_factor.n
             x0 == Floor(a, n)
             y0 == Floor(b, m)
             x0c == Clamp(x0, u.width - 1)
             x1c == Clamp(x0 + 1, u.width - 1)
             y0c == Clamp(y0, u.height - 1)
             y1c == Clamp(y0 + 1, u.height - 1)
             f00 == Fetch(u, x0c, y0c)
             f10 == Fetch(u, x1c, y0c)
             f01 == Fetch(u, x0c, y1c)
             f11 == Fetch(u, x1c, y1c)
             rd == f00.rd \cup (IF f00.ok THEN f10.rd ELSE {})
                     \cup (IF f00.ok /\ f10.ok THEN f01.rd ELSE {})
                     \cup (IF f00.ok /\ f10.ok /\ f01.ok THEN f11.rd ELSE {})
         IN  IF f00.ok /\ f10.ok /\ f01.ok /\ f11.ok
             THEN Cell(<<Blend(f00.px, f10.px, f01.px, f11.px, a % n, n, b % m, m, 1),
                         Blend(f00.px, f10.px, f01.px, f11.px, a % n, n, b % m, m, 2),
                         Blend(f00.px, f10.px, f01.px, f11.px, a % n, n, b % m, m, 3)>>, rd)
             ELSE Raised(rd)

----------------------------------------------------------------------------
(* State. *)

NoOp == [name |-> "none", args |-> <<>>]

NoResult == [status |-> "none", width |-> 0, height |-> 0, pixels |-> [c \in {} |-> Black]]

SourceImages == GradientImages(MaxDim, MaxDim) \cup UniformImages(MaxDim, MaxDim)

\* ImgUtil.__init__ on one of the images imgs
Load(imgs) ==
    /\ util \in imgs
    /\ loaded = util
    /\ orig = util
    /\ trail = <<>>
    /\ op = NoOp
    /\ dst = NoResult
    /\ reads = {}

\* one call util.<name>(args), r being what _transform_pixels did
Call(name, args, r) ==
    /\ op' = [name |-> name, args |-> args]
    /\ util' = r.self
    /\ dst' = r.img
    /\ reads' = r.reads
    /\ UNCHANGED <<loaded, orig, trail>>

Thresholds == Levels \cup { v + 1 : v \in Levels \ {255} }

BitCounts == -1 .. 9

Steps == {0, 1, 2}

Pivots == {-1, 0, MaxPivot} \X {-1, 0, MaxPivot}

AllFactors == { Factor(n, 2) : n \in -1 .. MaxNum }

PosFactors == { Factor(n, d) : n \in 1 .. MaxScaleNum, d \in {1, 2, 4} }

Recip(f) == Factor(f.d, f.n)

----------------------------------------------------------------------------
(* The operations. *)

Grayscale ==
    Call("grayscale", <<>>,
         TransformPixels(util, [c \in SameSize(util) |-> to_gray(c[1], c[2], util)],
                         util.width, util.height))

Binary ==
    \E threshold \in Thresholds :
        Call("binary", <<threshold>>,
             TransformPixels(util,
                             [c \in SameSize(util) |-> to_binary(c[1], c[2], util, threshold)],
                             util.width, util.height))

Negative ==
    Call("negative", <<>>,
         TransformPixels(util, [c \in SameSize(util) |-> to_negative(c[1], c[2], util)],
                         util.width, util.height))

ReduceBitDepth ==
    \E bits_per_channel \in BitCounts :
        Call("reduce_bit_depth", <<bits_per_channel>>,
             TransformPixels(util,
                             [c \in SameSize(util) |->
                                 to_reduce_bit_depth(c[1], c[2], util, bits_per_channel)],
                             util.width, util.height))

RgbToHsl ==
    \E tb \in Oracles(util) :
        Call("rgb_to_hsl", <<>>,
             TransformPixels(util, [c \in SameSize(util) |-> to_hsl(c[1], c[2], util, tb)],
                             util.width, util.height))

HslToRgb ==
    Call("hsl_to_rgb", <<>>,
         TransformPixels(util, [c \in SameSize(util) |-> to_rgb(c[1], c[2], util)],
                         util.width, util.height))

FlipVertically ==
    Call("flip_vertically", <<>>,
         TransformPixels(util,
                         [c \in SameSize(util) |-> to_flip_vertically(c[1], c[2], util)],
                         util.width, util.height))

FlipHorizontally ==
    Call("flip_horizontally", <<>>,
         TransformPixels(util,
                         [c \in SameSize(util) |-> to_flip_horizontally(c[1], c[2], util)],
                         util.width, util.height))

Rotate ==
    \E step \in Steps :
        LET dst_size == RotateSize(util, step)
        IN  Call("rotate", <<step>>,
                 TransformPixels(util,
                                 [c \in Coords(dst_size[1], dst_size[2]) |->
                                     to_rotate(c[1], c[2], util, step)],
                                 dst_size[1], dst_size[2]))

RotateOnPoint ==
    \E angle \in Angles, pivot \in Pivots :
        Call("rotate_on_point", <<angle, pivot[1], pivot[2]>>,
             TransformPixels(util,
                             [c \in SameSize(util) |->
                                 to_rotate_on_point(c[1], c[2], util, angle, pivot[1], pivot[2])],
                             util.width, util.height))

\* scale(x_factor, y_factor)
ScaleBy(x_factor, y_factor) ==
    LET yf == YFactor(x_factor, y_factor)
        dst_size == ScaleSize(util, x_factor, yf)
    IN  Call("scale", <<x_factor.n, x_factor.d, y_factor.n, y_factor.d>>,
             TransformPixels(util,
                             [c \in Coords(dst_size[1], dst_size[2]) |->
                                 to_scale(c[1], c[2], util, x_factor, yf)],
                             dst_size[1], dst_size[2]))

Scale ==
    \E x_factor \in AllFactors, y_factor \in AllFactors \cup {NoFactor} :
        ScaleBy(x_factor, y_factor)

ScaleBilinear ==
    \E x_factor \in AllFactors, y_factor \in AllFactors \cup {NoFactor} :
        LET yf == YFactor(x_factor, y_factor)
            dst_size == ScaleSize(util, x_factor, yf)
        IN  Call("scale_bilinear", <<x_factor.n, x_factor.d, y_factor.n, y_factor.d>>,
                 TransformPixels(util,
                                 [c \in Coords(dst_size[1], dst_size[2]) |->
                                     to_bilinear(c[1], c[2], util, x_factor, yf)],
                                 dst_size[1], dst_size[2]))

\* scale(f) with one argument, on the first image of a chain
ScaleUniform ==
    /\ trail = <<>>
    /\ \E f \in PosFactors : ScaleBy(f, NoFactor)

\* scale(1/f) on the re-opened result of scale(f)
ScaleBack ==
    /\ Len(trail) = 1
    /\ trail[1].name = "scale"
    /\ ScaleBy(Recip(Factor(trail[1].args[1], trail[1].args[2])), NoFactor)

\* the returned image is saved and opened as a new ImgUtil (a PNG holds at
\* least one pixel and keeps every pixel as it is)
Reopen ==
    /\ dst.status = "ok"
    /\ dst.width >= 1
    /\ dst.height >= 1
    /\ Len(trail) < MaxChain
    /\ util' = [width |-> dst.width, height |-> dst.height, pixels |-> dst.pixels]
    /\ loaded' = util'
    /\ trail' = Append(trail, op)
    /\ op' = NoOp
    /\ dst' = NoResult
    /\ reads' = {}
    /\ UNCHANGED orig

----------------------------------------------------------------------------
(* Specifications. *)

\* every operation, invoked in any order on one image object
Init == Load(SourceImages)

Next ==
    \/ Grayscale
    \/ Binary
    \/ Negative
    \/ ReduceBitDepth
    \/ RgbToHsl
    \/ HslToRgb
    \/ FlipVertically
    \/ FlipHorizontally
    \/ Rotate
    \/ RotateOnPoint
    \/ Scale
    \/ ScaleBilinear

Spec == Init /\ [][Next]_vars

\* chains of quarter-turn rotations
NextRot == Rotate \/ Reopen

SpecRot == Init /\ [][NextRot]_vars

\* chains of negatives
InitPixel == Load(PixelImages \cup GradientImages(MaxDim, MaxDim))

NextNeg == Negative \/ Reopen

SpecNeg == InitPixel /\ [][NextNeg]_vars

\* the per-pixel colour operations on sampled pixels
NextPixel == Grayscale \/ Binary \/ ReduceBitDepth

SpecPixel == InitPixel /\ [][NextPixel]_vars

\* rgb_to_hsl and hsl_to_rgb on an image and on its saved and re-opened
\* result, as src/imgx.py chains them
InitHsl == Load(HslImages)

NextHsl == RgbToHsl \/ HslToRgb \/ (trail = <<>> /\ Reopen)

SpecHsl == InitHsl /\ [][NextHsl]_vars

\* scale(f) and then scale(1/f), as src/imgx.py chains two scalings
InitScale == Load(GradientImages(MaxScaleDim, MaxScaleDim))

NextScale == ScaleUniform \/ ScaleBack \/ (trail = <<>> /\ Reopen)

SpecScale == InitScale /\ [][NextScale]_vars

----------------------------------------------------------------------------
(* Properties. *)

OpIs(o, name) == o.name = name

\* the returned image d is image u, pixel for pixel
SameImage(d, u) ==
    /\ d.status = "ok"
    /\ d.width = u.width
    /\ d.height = u.height
    /\ d.pixels = u.pixels

RotateIs(o, step) == OpIs(o, "rotate") /\ o.args = <<step>>

\* C1: rotate(0) and then rotate(2) on the result returns the original
\* image (same width and height, every pixel equal), and so does rotate(0)
\* applied four times in a row.
C1_RotateRoundTrip ==
    /\ (Len(trail) = 1 /\ RotateIs(trail[1], 0) /\ RotateIs(op, 2)) => SameImage(dst, orig)
    /\ (Len(trail) = 3 /\ (\A i \in 1 .. 3 : RotateIs(trail[i], 0)) /\ RotateIs(op, 0))
           => SameImage(dst, orig)

C1_Witness ==
    /\ Len(trail) = 1 /\ RotateIs(trail[1], 0) /\ RotateIs(op, 2)
    /\ orig.width = 2 /\ orig.height = 1
    /\ util.width = 1 /\ util.height = 2
    /\ orig.pixels[<<0, 0>>] # orig.pixels[<<1, 0>>]
    /\ dst.status = "ok"

\* scale(f) and then scale(1/f): the factors of the two calls
IsScaleRoundTrip ==
    /\ Len(trail) = 1
    /\ OpIs(trail[1], "scale") /\ OpIs(op, "scale")
    /\ trail[1].args[3] = 0 /\ trail[1].args[4] = 0
    /\ op.args = <<trail[1].args[2], trail[1].args[1], 0, 0>>

WithinOne(a, b) == a - b <= 1 /\ b - a <= 1

\* C2 as amended: for every source width W >= 1 and every scale factor
\* f >= 1/2, the width after scale(f) and then scale(1/f) differs from W by
\* at most 1, and likewise the height.
C2_ScaleRoundTripFromHalf ==
    (IsScaleRoundTrip /\ 2 * trail[1].args[1] >= trail[1].args[2])
        => /\ dst.status = "ok"
           /\ WithinOne(dst.width, orig.width)
           /\ WithinOne(dst.height, orig.height)

C2_Witness ==
    /\ IsScaleRoundTrip
    /\ trail[1].args[1] = 3 /\ trail[1].args[2] = 4
    /\ orig.width = 6 /\ util.width = 4
    /\ dst.status = "ok" /\ dst.width = 5

\* C2 as stated: the same for every positive scale factor f.
C2_ScaleRoundTripAnyFactor ==
    IsScaleRoundTrip
        => /\ dst.status = "ok"
           /\ WithinOne(dst.width, orig.width)
           /\ WithinOne(dst.height, orig.height)

\* the factors of a scale or scale_bilinear call: y_factor None is x_factor
XFactorOf(o) == Factor(o.args[1], o.args[2])
YFactorOf(o) == YFactor(XFactorOf(o), Factor(o.args[3], o.args[4]))

IsResize(o) == OpIs(o, "scale") \/ OpIs(o, "scale_bilinear")

\* C3: scale and scale_bilinear with a zero or negative x_factor or
\* y_factor, and reduce_bit_depth with bits_per_channel outside 0..8, fail
\* with an error and return no image.
C3_InvalidParameterRaises ==
    /\ (IsResize(op) /\ (XFactorOf(op).n <= 0 \/ YFactorOf(op).n <= 0)) => dst.status = "error"
    /\ (OpIs(op, "reduce_bit_depth") /\ op.args[1] \notin 0 .. 8) => dst.status = "error"

IsGeometry(o) ==
    \/ OpIs(o, "flip_vertically") \/ OpIs(o, "flip_horizontally")
    \/ OpIs(o, "rotate") \/ OpIs(o, "rotate_on_point")
    \/ (IsResize(o) /\ XFactorOf(o).n > 0 /\ YFactorOf(o).n > 0)

\* C4: with valid parameters, every source pixel that a flip, a rotation
\* or a scaling reads lies at 0 <= x < W, 0 <= y < H, and the operation
\* returns an image (it raises no out-of-bounds error).
C4_ReadsInBounds ==
    IsGeometry(op)
        => /\ \A c \in reads : InBounds(util, c[1], c[2])
           /\ dst.status = "ok"

C4_Witness ==
    /\ OpIs(op, "scale_bilinear")
    /\ XFactorOf(op) = Factor(4, 2)
    /\ util.width = 2 /\ dst.status = "ok" /\ dst.width = 4
    /\ reads = Coords(util.width, util.height)

\* C5: after any sequence of operations invoked on an image object, its
\* width, height and pixels are what they were when it was constructed.
C5_SourceUnchanged == util = loaded

C5_Witness ==
    /\ OpIs(op, "negative")
    /\ dst.status = "ok"
    /\ dst.pixels # util.pixels
    /\ util = loaded

ChannelsInRange(d) ==
    \A c \in DOMAIN d.pixels : \A ch \in 1 .. 3 : d.pixels[c][ch] \in 0 .. 255

\* C6: negative applied twice returns the original image (same size, every
\* pixel equal), and every channel of every pixel negative returns is in
\* 0..255.
C6_NegativeInvolution ==
    /\ OpIs(op, "negative") => (dst.status = "ok" /\ ChannelsInRange(dst))
    /\ (Len(trail) = 1 /\ OpIs(trail[1], "negative") /\ OpIs(op, "negative"))
           => SameImage(dst, orig)

C6_Witness ==
    /\ Len(trail) = 1 /\ OpIs(trail[1], "negative") /\ OpIs(op, "negative")
    /\ orig.pixels[<<0, 0>>] = <<0, 51, 255>>
    /\ util.pixels[<<0, 0>>] = <<255, 204, 0>>
    /\ dst.status = "ok"

\* C7: every pixel binary(threshold) returns is (255,255,255) or (0,0,0),
\* and it is white exactly when floor((r+g+b)/3) of the source pixel is
\* >= threshold.
C7_BinaryBlackOrWhite ==
    OpIs(op, "binary")
        => /\ dst.status = "ok"
           /\ DOMAIN dst.pixels = DOMAIN util.pixels
           /\ \A c \in DOMAIN util.pixels :
                LET p == util.pixels[c]
                IN  /\ dst.pixels[c] \in {<<255, 255, 255>>, <<0, 0, 0>>}
                    /\ dst.pixels[c] = <<255, 255, 255>>
                         <=> 3 * op.args[1] <= p[1] + p[2] + p[3]

C7_Witness ==
    /\ OpIs(op, "binary") /\ op.args = <<102>>
    /\ util.pixels[<<0, 0>>] = <<51, 102, 153>>
    /\ dst.status = "ok"
    /\ dst.pixels[<<0, 0>>] = <<255, 255, 255>>

IsHslRoundTrip ==
    Len(trail) = 1 /\ OpIs(trail[1], "rgb_to_hsl") /\ OpIs(op, "hsl_to_rgb")

ChannelsWithin(d, u, k) ==
    /\ d.status = "ok"
    /\ DOMAIN d.pixels = DOMAIN u.pixels
    /\ \A c \in DOMAIN u.pixels : \A ch \in 1 .. 3 :
         /\ d.pixels[c][ch] - u.pixels[c][ch] <= k
         /\ u.pixels[c][ch] - d.pixels[c][ch] <= k

\* C8 as amended: rgb_to_hsl and then hsl_to_rgb returns a pixel each of
\* whose channels differs from the original channel by at most 4.
C8_HslRoundTripWithin4 == IsHslRoundTrip => ChannelsWithin(dst, orig, 4)

C8_Witness ==
    /\ IsHslRoundTrip
    /\ orig.pixels[<<0, 0>>] = <<0, 9, 255>>
    /\ util.pixels[<<0, 0>>] = <<168, 255, 128>>
    /\ dst.status = "ok"
    /\ dst.pixels[<<0, 0>>] = <<1, 13, 255>>

\* C8 as stated: each channel differs from the original by at most 2.
C8_HslRoundTripWithin2 == IsHslRoundTrip => ChannelsWithin(dst, orig, 2)

\* C9: rotate_on_point returns an image of the source's size in which a
\* destination pixel whose rounded, inverse-rotated source coordinate lies
\* outside the source is black (0,0,0) and every other one is the source
\* pixel at that coordinate.
C9_PivotRotationFillsBlack ==
    OpIs(op, "rotate_on_point")
        => /\ dst.status = "ok"
           /\ dst.width = util.width /\ dst.height = util.height
           /\ \A c \in Coords(util.width, util.height) :
                LET src == PivotSrc(c[1], c[2], op.args[1], op.args[2], op.args[3])
                IN  dst.pixels[c] = IF InBounds(util, src[1], src[2])
                                    THEN util.pixels[src]
                                    ELSE <<0, 0, 0>>

\* the top `bits` bits of an 8-bit channel
TopBits(v, bits) == (v \div Pow2(8 - bits)) * Pow2(8 - bits)

\* C10: for bits_per_channel in 0..8 reduce_bit_depth keeps the top `bits`
\* bits of each channel: 8 bits is the identity, 0 bits gives black, and
\* 1 bit maps (200,100,50) to (128,0,0).
C10_ReduceKeepsTopBits ==
    (OpIs(op, "reduce_bit_depth") /\ op.args[1] \in 0 .. 8)
        => /\ dst.status = "ok"
           /\ DOMAIN dst.pixels = DOMAIN util.pixels
           /\ \A c \in DOMAIN util.pixels : \A ch \in 1 .. 3 :
                dst.pixels[c][ch] = TopBits(util.pixels[c][ch], op.args[1])
           /\ op.args[1] = 8 => dst.pixels = util.pixels
           /\ op.args[1] = 0 => \A c \in DOMAIN util.pixels : dst.pixels[c] = <<0, 0, 0>>
           /\ op.args[1] = 1 =>
                \A c \in DOMAIN util.pixels :
                    util.pixels[c] = <<200, 100, 50>> => dst.pixels[c] = <<128, 0, 0>>

C10_Witness ==
    /\ OpIs(op, "reduce_bit_depth") /\ op.args = <<1>>
    /\ util.pixels[<<0, 0>>] = <<200, 100, 50>>
    /\ dst.status = "ok"
    /\ dst.pixels[<<0, 0>>] = <<128, 0, 0>>

====
